---- MODULE Spec2Model ----
(***************************************************************************)
(* A model of fusionManager (package api of wtg/shuttletracker): the       *)
(* goroutine fm.run that owns the subscription map, the client registry,   *)
(* the tracks and the bus-button counter, the per-connection goroutines    *)
(* handleClient, the ETA callback handleETA, the HTTP handlers             *)
(* webSocketHandler and debugHandler/exportHandler (through debugInfo).    *)
(* All five channels of fusionManager are unbuffered: a send is a          *)
(* rendezvous with the select of fm.run.                                   *)
(***************************************************************************)
EXTENDS Integers, Sequences, FiniteSets, TLC

(***************************************************************************)
(* Bounds of the model.                                                    *)
(***************************************************************************)
\* connections that get a client identifier
MaxClients == 2
\* what the environment does in the publish/subscribe specification: frames
\* delivered, ETA callbacks and connections breaking, counted together
MaxEvents == 3
\* position frames delivered in the track specification
MaxTrackEvents == 2
\* frames delivered and snapshot requests made in the snapshot specification
MaxSnapEvents == 3
\* what the environment does in the message-order specification
MaxOrderEvents == 3
\* what the environment does in the failed-write specification
MaxFailEvents == 4
\* what the environment does in the disconnection specification
MaxCloseEvents == 2
\* frames delivered and snapshot requests made in the reply specification
MaxReplyEvents == 2
\* events in the specification with every kind of task
MaxLiveEvents == 2
\* events in the specification with every kind of message fm.run takes
MaxRunEvents == 4
\* client identifiers in the specification of the subscription map's handlers
MaxSubscribers == 3
\* UpdateShuttles: the requests it makes, the largest updateInterval (in
\* seconds) it is started with, and the most pieces a response body splits into
MaxRequests == 3
MaxInterval == 2
MaxPieces == 4
\* frames delivered in the connection specification, and the connection
\* attempts that fail in it
MaxConnEvents == 2
MaxConnFailures == 2
(***************************************************************************)
(* Values.                                                                 *)
(***************************************************************************)
\* uuid.NewV1(): the n-th identifier generated; all are distinct
NewV1(n) == 100 + n
ClientIDs == {NewV1(n) : n \in 1..MaxClients}

Topics == {"eta", "bus_button"}
Tracks == {"trkA", "trkB"}
UserAgents == {"ua"}

\* time.Time{}: the zero time, what a position holds when the client sent none
ZeroTime == 0
\* a time.Time read while another goroutine was writing it (3 words, no lock)
TornTime == -1
\* times a client can claim in the "time" member of a position
ClientTimes == {ZeroTime, 77}

\* eta.VehicleETA values handed to the callback; encodable = FALSE is one that
\* json.Marshal returns an error for
Estimates == [VehicleID : {7}, encodable : BOOLEAN]
Unmarshalable == {e \in Estimates : ~e.encodable}

Nil == "nil"

----------------------------------------------------------------------------
(***************************************************************************)
(* Go maps and slices.                                                     *)
(***************************************************************************)
EmptyMap == [k \in {} |-> Nil]
MapGet(m, k) == IF k \in DOMAIN m THEN m[k] ELSE <<>>
MapPut(m, k, v) == [x \in (DOMAIN m) \cup {k} |-> IF x = k THEN v ELSE m[x]]
MapDelete(m, k) == [x \in (DOMAIN m) \ {k} |-> m[x]]

\* append(s[:i], s[i+1:]...), i counted from 1
RemoveAt(s, i) == [j \in 1..(Len(s) - 1) |-> IF j < i THEN s[j] ELSE s[j + 1]]

\* the index of the first element of s equal to x, 0 when there is none
IndexOf(s, x) ==
  IF \E i \in 1..Len(s) : s[i] = x
  THEN CHOOSE i \in 1..Len(s) : s[i] = x /\ \A j \in 1..(i - 1) : s[j] # x
  ELSE 0

Range(s) == {s[i] : i \in 1..Len(s)}
Count(s, x) == Cardinality({i \in 1..Len(s) : s[i] = x})

----------------------------------------------------------------------------
(***************************************************************************)
(* Messages on the wire and their decoding (decodeFusionMessage and the    *)
(* json.Unmarshal calls of handleClient).  Only the members the manager    *)
(* looks at are kept: of a position its latitude, track and time, of a     *)
(* bus_button its latitude.                                                *)
(***************************************************************************)
\* a payload that json.Unmarshal rejects for the type the envelope names
Garbage == [malformed |-> TRUE]
\* no clientMessage: the frame was dropped
NoMessage == [clientID |-> 0, msg |-> [kind |-> "none"]]

SubscribePayloads == [topic : Topics]
PositionPayloads(n) == [latitude : {n}, track : Tracks, time : ClientTimes]
BusButtonPayloads(n) == [latitude : {n}]

\* the frames that can arrive as the n-th frame of a run: the latitude a
\* position or a bus_button carries is n, so that no two of them are equal;
\* json = FALSE is a frame that is no JSON envelope at all
Frames(n) ==
  {[json |-> FALSE, type |-> "", message |-> Garbage]}
  \cup [json : {TRUE}, type : {"subscribe", "unsubscribe"},
        message : SubscribePayloads \cup {Garbage}]
  \cup [json : {TRUE}, type : {"position"}, message : PositionPayloads(n) \cup {Garbage}]
  \cup [json : {TRUE}, type : {"bus_button"}, message : BusButtonPayloads(n) \cup {Garbage}]
  \cup [json : {TRUE}, type : {"bogus"}, message : {Garbage}]

decodeFusionMessage(r) ==
  IF r.json
  THEN [err |-> FALSE, type |-> r.type, message |-> r.message]
  ELSE [err |-> TRUE, type |-> "", message |-> Garbage]

\* the kind of a frame, for the budget of a specification
FrameKind(r) ==
  IF ~r.json \/ r.message = Garbage \/ r.type = "bogus" THEN "junk"
  ELSE IF r.type = "position" THEN "pos"
  ELSE IF r.type = "bus_button" THEN "bus"
  ELSE IF r.type = "unsubscribe" THEN "unsub"
  ELSE "sub"

\* fusionMessageEnvelope and json.Marshal of it
Envelope(type, message) == [Type |-> type, Message |-> message]

Marshal(v) ==
  IF v.Message \in Unmarshalable
  THEN [err |-> TRUE, b |-> Nil]
  ELSE [err |-> FALSE, b |-> <<"json", v.Type, v.Message>>]

\* what handleClient sends on clientMsg for a frame read at time t, NoMessage when
\* the frame is dropped (lines 324-368)
ClientMessageOf(id, r, t) ==
  LET d == decodeFusionMessage(r) IN
  IF d.err THEN NoMessage
  ELSE IF d.type \in {"subscribe", "unsubscribe", "position", "bus_button"}
          /\ d.message = Garbage THEN NoMessage
  ELSE IF d.type = "subscribe"
    THEN [clientID |-> id,
          msg |-> [kind |-> "fusionMessageSubscribe", Topic |-> d.message.topic]]
  ELSE IF d.type = "unsubscribe"
    THEN [clientID |-> id,
          msg |-> [kind |-> "fusionMessageUnsubscribe", Topic |-> d.message.topic]]
  ELSE IF d.type = "position"
    THEN LET fp == [kind |-> "fusionPosition", Latitude |-> d.message.latitude,
                    Track |-> d.message.track, Time |-> d.message.time]
         IN [clientID |-> id, msg |-> [fp EXCEPT !.Time = t]]
  ELSE IF d.type = "bus_button"
    THEN [clientID |-> id,
          msg |-> [kind |-> "fusionBusButton", Latitude |-> d.message.latitude]]
  ELSE NoMessage

----------------------------------------------------------------------------
(***************************************************************************)
(* The handlers of fm.run, as functions of the state they own.             *)
(***************************************************************************)
\* Faulty variants of the handlers, which the properties below must reject.
handleMsgSubscribe_NoCheck(subs, clientID, topic) ==
  MapPut(subs, topic, Append(MapGet(subs, topic), clientID))

handleMsgUnsubscribe_AlwaysStore(subs, clientID, topic) ==
  LET l == MapGet(subs, topic)
      i == IndexOf(l, clientID) IN
  MapPut(subs, topic, IF i = 0 THEN l ELSE RemoveAt(l, i))

RemoveSubscriptions_Head(subs, clientID) ==
  [t \in DOMAIN subs |->
     IF IndexOf(subs[t], clientID) = 0 THEN subs[t] ELSE Tail(subs[t])]

RemoveSubscriptions_Nothing(subs, clientID) == subs

RemoveSubscriptions_Unchecked(subs, clientID) ==
  [t \in DOMAIN subs |->
     LET i == IndexOf(subs[t], clientID) IN
     IF subs[t] = <<>> THEN subs[t]
     ELSE RemoveAt(subs[t], IF i = 0 THEN 1 ELSE i)]

handleMsgUnsubscribe_SwapDelete(subs, clientID, topic) ==
  LET l == MapGet(subs, topic)
      i == IndexOf(l, clientID) IN
  IF i = 0 THEN subs
  ELSE MapPut(subs, topic,
              [j \in 1..(Len(l) - 1) |-> IF j = i THEN l[Len(l)] ELSE l[j]])

RemoveSubscriptions_FirstTopic(subs, clientID) ==
  LET hits == {t \in DOMAIN subs : IndexOf(subs[t], clientID) # 0} IN
  IF hits = {} THEN subs
  ELSE LET t == CHOOSE x \in hits : TRUE IN
       [subs EXCEPT ![t] = RemoveAt(subs[t], IndexOf(subs[t], clientID))]

handleMsgPosition_KeepTime(trks, fp, t) ==
  MapPut(trks, fp.Track, Append(MapGet(trks, fp.Track), fp))

Subscribers_AllButLast(subs, topic) ==
  LET l == MapGet(subs, topic) IN SubSeq(l, 1, Len(l) - 1)

IncrementBusButton_Twice(n) == n + 2

handleETA_BusTopic(e) == [topic |-> "bus_button", msg |-> Envelope("eta", e)]

handleMsgSubscribe(subs, clientID, topic) ==
  LET l == MapGet(subs, topic) IN
  IF \E i \in 1..Len(l) : l[i] = clientID
  THEN subs
  ELSE MapPut(subs, topic, Append(l, clientID))

handleMsgUnsubscribe(subs, clientID, topic) ==
  LET l == MapGet(subs, topic)
      i == IndexOf(l, clientID) IN
  IF i = 0 THEN subs ELSE MapPut(subs, topic, RemoveAt(l, i))

\* the loop of processRemoveClient over the subscription map
RemoveSubscriptions(subs, clientID) ==
  [t \in DOMAIN subs |->
     LET i == IndexOf(subs[t], clientID) IN
     IF i = 0 THEN subs[t] ELSE RemoveAt(subs[t], i)]

handleMsgPosition(trks, fp, t) ==
  MapPut(trks, fp.Track, Append(MapGet(trks, fp.Track), [fp EXCEPT !.Time = t]))

\* the slice a fan-out ranges over (lines 239, 300)
Subscribers(subs, topic) == MapGet(subs, topic)

\* fm.busButtonCount++ (line 288)
IncrementBusButton(n) == n + 1

\* the serverMessage handleETA passes to sendToTopic
handleETA(e) == [topic |-> "eta", msg |-> Envelope("eta", e)]

\* the copy of one client record made by processDebug, its time as read
DebugClient(v, lmt) == [id |-> v.id, lastMessageTime |-> lmt, userAgent |-> v.userAgent]

\* debug.tracks: the tracks without their keys (map order is unspecified)
DebugTracks(trks) == {trks[k] : k \in DOMAIN trks}

----------------------------------------------------------------------------
(***************************************************************************)
(* State.                                                                  *)
(***************************************************************************)
VARIABLES
  \* fusionManager's internal state, owned by fm.run
  subscriptions,   \* map[string][]string
  clients,         \* map[string]*fusionClient; a connection is named by its id
  tracks,          \* map[string][]fusionPosition
  busButtonCount,  \* uint64
  \* where fm.run is, and the locals of the handler it is in
  actorPc,         \* "select", "fanout", "debugClients", "debugTracks",
                   \* "debugSend", "crashed"
  fan,             \* the fan-out loop: the slice ranged over, the index, the bytes
  dbg,             \* processDebug: the reply channel, clients to copy, the copy
  \* one task per connection: webSocketHandler, then handleClient
  cpc,             \* "free", "adding", "read", "stamp", "decode", "send", "remove",
                   \* "done"
  out,             \* what the task is sending on addClient/clientMsg/removeClient
  conn,            \* "none", "open", "broken"
  nextID,          \* identifiers generated so far
  \* the ETA callback and the snapshot requesters
  etaTask,         \* [pc, sm]: blocked in sendToTopic when pc = "sending"
  rpc,             \* "idle", "send" (fm.debug <- copyChan), "sent" (that send
                   \* has returned), "recv" (<-copyChan), "got"
  snap,            \* the snapshot a requester holds
  \* the environment
  now,             \* the wall clock
  budget,          \* what the environment may still do
  \* what is observed of the run
  wlog,            \* per connection, the WriteMessage calls: bytes and outcome
  owed,            \* per client, the payloads fanned out while it was subscribed
  posLog,          \* per track, the positions fm.run received and when
  instants,        \* the states of fm's data since processDebug began
  hi,              \* per track, the longest length any snapshot has shown
  floor,           \* per requester, hi when it made its request
  formerly,        \* per client, the topics it has ever been subscribed to
  handled,         \* how many bus_button events and broadcasts fm.run has taken
  sentLog,         \* per source, the messages it has sent on fm's channels
  tookLog,         \* per source, the messages fm.run has received from it
  last,            \* the message fm.run handled last
  stampedOver,     \* per client, while its handleClient decodes a frame: the
                   \* lastMessageTime that line 323 overwrote for that frame;
                   \* -1 otherwise
  \* the feed poller of main.go
  poller           \* UpdateShuttles: where it is, and what it has done

actorState == <<subscriptions, clients, tracks, busButtonCount>>
actorLocal == <<actorPc, fan, dbg>>
connTasks == <<cpc, out, conn, nextID>>
requesters == <<rpc, snap>>
observed == <<wlog, owed, posLog, instants, hi, floor, formerly, handled>>
logs == <<sentLog, tookLog>>
vars == <<subscriptions, clients, tracks, busButtonCount, actorPc, fan, dbg,
          cpc, out, conn, nextID, etaTask, rpc, snap, now, budget,
          wlog, owed, posLog, instants, hi, floor, formerly, handled,
          sentLog, tookLog, last, stampedOver, poller>>

\* the ETA callback as a source of messages, next to the clients
ETABridge == 0
Sources == ClientIDs \cup {ETABridge}

Requesters == {"r1", "r2"}

NoFan == [subs |-> <<>>, i |-> 0, b |-> Nil]
NoDbg == [ch |-> Nil, todo |-> {}, clients |-> {}, tracks |-> {}, busButtonCount |-> 0]
NoSnap == [none |-> TRUE]
IdleETA == [pc |-> "idle", sm |-> Nil]

\* UpdateShuttles before main starts it
NotStarted == [pc |-> "off", updateInterval |-> 0, requests |-> 0, slept |-> 0,
               gaps |-> <<>>, pieces |-> 0, i |-> 0, inserted |-> 0]

\* all of newFusionManager but the subscription map and the registry
InitTasks(b) ==
  /\ tracks = EmptyMap
  /\ busButtonCount = 0
  /\ actorPc = "select"
  /\ fan = NoFan
  /\ dbg = NoDbg
  /\ cpc = [c \in ClientIDs |-> "free"]
  /\ out = [c \in ClientIDs |-> Nil]
  /\ conn = [c \in ClientIDs |-> "none"]
  /\ nextID = 0
  /\ etaTask = IdleETA
  /\ rpc = [r \in Requesters |-> "idle"]
  /\ snap = [r \in Requesters |-> NoSnap]
  /\ now = 1
  /\ budget = b
  /\ wlog = [c \in ClientIDs |-> <<>>]
  /\ owed = [c \in ClientIDs |-> <<>>]
  /\ posLog = [k \in Tracks |-> <<>>]
  /\ instants = {}
  /\ hi = [k \in Tracks |-> 0]
  /\ floor = [r \in Requesters |-> [k \in Tracks |-> 0]]
  /\ formerly = [c \in ClientIDs |-> {}]
  /\ handled = [bus |-> 0, broadcast |-> 0]
  /\ sentLog = [x \in Sources |-> <<>>]
  /\ tookLog = [x \in Sources |-> <<>>]
  /\ last = [kind |-> "none", hit |-> FALSE]
  /\ stampedOver = [c \in ClientIDs |-> -1]
  /\ poller = NotStarted

\* newFusionManager: empty maps, a zero counter, fm.run waiting in its select
InitWith(b) ==
  /\ subscriptions = EmptyMap
  /\ clients = EmptyMap
  /\ InitTasks(b)

\* the wall clock after one more event of the environment: it advances with
\* every event when the specification lets it run
Tick == IF budget.ticking THEN now + 1 ELSE now

\* source src begins a send on channel chan: its n-th message.  The logs are
\* kept in the specifications that ask for them
Sent(src, chan) ==
  sentLog' = IF budget.logging
             THEN [sentLog EXCEPT ![src] = Append(@, [chan |-> chan, n |-> Len(@) + 1])]
             ELSE sentLog

\* fm.run receives from channel chan the message src is sending, which is the
\* last one src began to send
Took(src, chan) ==
  tookLog' = IF budget.logging
             THEN [tookLog EXCEPT ![src] =
                     Append(@, [chan |-> chan, n |-> Len(sentLog[src])])]
             ELSE tookLog

\* the data of fm as a snapshot would show it
View(cl, trks, n) ==
  [clients |-> {DebugClient(cl[c], cl[c].lastMessageTime) : c \in DOMAIN cl},
   tracks |-> DebugTracks(trks),
   busButtonCount |-> n]

----------------------------------------------------------------------------
(***************************************************************************)
(* The connection tasks: webSocketHandler and handleClient.                *)
(***************************************************************************)
\* Faulty variant: a webSocketHandler that goes on to register the client
\* when uuid.NewV1 has failed
Connect_IgnoresError ==
  /\ \E outcome \in {"ok", "upgradeFailed", "uuidFailed"}, ua \in UserAgents :
       /\ outcome # "ok" => budget.fail > 0
       /\ budget' = IF outcome = "ok" THEN budget ELSE [budget EXCEPT !.fail = @ - 1]
       /\ IF outcome # "upgradeFailed"
          THEN /\ nextID < MaxClients
               /\ LET id == NewV1(nextID + 1) IN
                  /\ nextID' = nextID + 1
                  /\ conn' = [conn EXCEPT ![id] = "open"]
                  /\ cpc' = [cpc EXCEPT ![id] = "adding"]
                  /\ out' = [out EXCEPT ![id] =
                               [id |-> id, lastMessageTime |-> now, userAgent |-> ua]]
                  /\ Sent(id, "addClient")
               /\ UNCHANGED <<now, tookLog>>
          ELSE UNCHANGED <<connTasks, now, logs>>
  /\ UNCHANGED <<poller, stampedOver, actorState, actorLocal, etaTask, requesters, observed, last>>

\* webSocketHandler: upgrade, uuid.NewV1, then block in fm.addClient <- c
Connect ==
  /\ \E outcome \in {"ok", "upgradeFailed", "uuidFailed"}, ua \in UserAgents :
       IF outcome = "ok"
       THEN /\ nextID < MaxClients
            /\ LET id == NewV1(nextID + 1) IN
               /\ nextID' = nextID + 1
               /\ conn' = [conn EXCEPT ![id] = "open"]
               /\ cpc' = [cpc EXCEPT ![id] = "adding"]
               /\ out' = [out EXCEPT ![id] =
                            [id |-> id, lastMessageTime |-> now, userAgent |-> ua]]
               /\ Sent(id, "addClient")
            /\ UNCHANGED <<budget, now, tookLog>>
       ELSE /\ budget.fail > 0
            /\ budget' = [budget EXCEPT !.fail = @ - 1]
            /\ UNCHANGED <<connTasks, now, logs>>
  /\ UNCHANGED <<poller, stampedOver, actorState, actorLocal, etaTask, requesters, observed, last>>

\* the peer closes the connection, or the network drops it
ConnBreak(c) ==
  /\ conn[c] = "open"
  /\ "brk" \in budget.allowed
  /\ budget.events > 0
  /\ budget' = [budget EXCEPT !.events = @ - 1]
  /\ now' = Tick
  /\ conn' = [conn EXCEPT ![c] = "broken"]
  /\ UNCHANGED <<poller, stampedOver, actorState, actorLocal, cpc, out, nextID, etaTask, requesters,
                 observed, logs, last>>

\* Faulty variant: a reader that goes on to the next frame while its send on
\* fm.clientMsg is still pending, as with a send that does not wait
ReaderNextReader_NoWait(c) ==
  /\ cpc[c] \in {"read", "send"}
  /\ conn[c] # "broken"
  /\ budget.events > 0
  /\ budget' = [budget EXCEPT !.events = @ - 1, !.arrived = @ + 1]
  /\ now' = Tick
  /\ cpc' = [cpc EXCEPT ![c] = "stamp"]
  /\ out' = [out EXCEPT ![c] = budget.arrived + 1]
  /\ UNCHANGED <<poller, stampedOver, actorState, actorLocal, conn, nextID, etaTask, requesters,
                 observed, logs, last>>

\* Faulty variant: a reader that returns on a read error without
\* fm.removeClient <- client.id
ReaderNextReader_NoDeregister(c) ==
  /\ cpc[c] = "read"
  /\ IF conn[c] = "broken"
     THEN /\ cpc' = [cpc EXCEPT ![c] = "done"]
          /\ UNCHANGED <<out, budget, now>>
     ELSE /\ budget.events > 0
          /\ budget' = [budget EXCEPT !.events = @ - 1, !.arrived = @ + 1]
          /\ now' = Tick
          /\ cpc' = [cpc EXCEPT ![c] = "stamp"]
          /\ out' = [out EXCEPT ![c] = budget.arrived + 1]
  /\ UNCHANGED <<poller, stampedOver, actorState, actorLocal, conn, nextID, etaTask, requesters,
                 observed, logs, last>>

\* handleClient, line 315: NextReader returns a frame, or an error and the
\* loop is left for fm.removeClient <- client.id
ReaderNextReader(c) ==
  /\ cpc[c] = "read"
  /\ IF conn[c] = "broken"
     THEN /\ cpc' = [cpc EXCEPT ![c] = "remove"]
          /\ out' = [out EXCEPT ![c] = c]
          /\ Sent(c, "removeClient")
          /\ UNCHANGED <<budget, now>>
     ELSE /\ budget.events > 0
          /\ budget' = [budget EXCEPT !.events = @ - 1, !.arrived = @ + 1]
          /\ now' = Tick
          /\ cpc' = [cpc EXCEPT ![c] = "stamp"]
          /\ out' = [out EXCEPT ![c] = budget.arrived + 1]
          /\ UNCHANGED sentLog
  /\ UNCHANGED <<poller, stampedOver, actorState, actorLocal, conn, nextID, etaTask, requesters,
                 observed, tookLog, last>>

\* handleClient, line 323: client.lastMessageTime = time.Now() on the record
\* the registry points to
ReaderStamp(c) ==
  /\ cpc[c] = "stamp"
  /\ LET cl == [clients EXCEPT ![c].lastMessageTime = now] IN
     /\ clients' = cl
     /\ instants' = IF actorPc \in {"debugClients", "debugTracks", "debugSend"}
                    THEN instants \cup {View(cl, tracks, busButtonCount)}
                    ELSE instants
  /\ stampedOver' = [stampedOver EXCEPT ![c] = clients[c].lastMessageTime]
  /\ cpc' = [cpc EXCEPT ![c] = "decode"]
  /\ UNCHANGED <<poller, subscriptions, tracks, busButtonCount, actorLocal, out, conn,
                 nextID, etaTask, requesters, now, budget, wlog, owed, posLog, hi,
                 floor, formerly, handled, logs, last>>

\* handleClient, lines 324-368: the frame is decoded, which reads it from the
\* connection, and is either dropped or sent on fm.clientMsg; a position is
\* given the time.Now() of line 354
ReaderDecode(c) ==
  /\ cpc[c] = "decode"
  /\ \E r \in Frames(out[c]) :
       LET k == FrameKind(r)
           cm == ClientMessageOf(c, r, now)
       IN
       /\ k \in budget.allowed
       /\ IF cm = NoMessage
          THEN /\ cpc' = [cpc EXCEPT ![c] = "read"]
               /\ UNCHANGED <<out, sentLog>>
          ELSE /\ cpc' = [cpc EXCEPT ![c] = "send"]
               /\ out' = [out EXCEPT ![c] = cm]
               /\ Sent(c, "clientMsg")
  /\ stampedOver' = [stampedOver EXCEPT ![c] = -1]
  /\ UNCHANGED <<poller, actorState, actorLocal, conn, nextID, etaTask, requesters,
                 now, budget, observed, tookLog, last>>

(***************************************************************************)
(* The ETA callback and the snapshot requesters.                           *)
(***************************************************************************)
\* Faulty variant: a callback that writes the envelope to the subscribers
\* itself instead of handing it to fm.run
HandleETA_WritesItself ==
  /\ etaTask.pc = "idle"
  /\ "eta" \in budget.allowed
  /\ budget.events > 0
  /\ \E e \in Estimates :
       wlog' = [c \in ClientIDs |->
                  IF c \in Range(MapGet(subscriptions, "eta")) /\ c \in DOMAIN clients
                  THEN Append(wlog[c], [b |-> Marshal(handleETA(e).msg).b,
                                        ok |-> conn[c] = "open"])
                  ELSE wlog[c]]
  /\ budget' = [budget EXCEPT !.events = @ - 1]
  /\ now' = Tick
  /\ UNCHANGED <<poller, stampedOver, actorState, actorLocal, connTasks, etaTask, requesters,
                 owed, posLog, instants, hi, floor, formerly, handled, logs, last>>

\* handleETA: build the envelope and block in sendToTopic
HandleETA ==
  /\ etaTask.pc = "idle"
  /\ "eta" \in budget.allowed
  /\ budget.events > 0
  /\ \E e \in Estimates :
       etaTask' = [pc |-> "sending", sm |-> handleETA(e)]
  /\ budget' = [budget EXCEPT !.events = @ - 1]
  /\ now' = Tick
  /\ Sent(ETABridge, "serverMsg")
  /\ UNCHANGED <<poller, stampedOver, actorState, actorLocal, connTasks, requesters, observed, tookLog, last>>

\* debugInfo, lines 404-405: make the reply channel and block sending it
DebugInfo(r) ==
  /\ rpc[r] = "idle"
  /\ r \in budget.reqs
  /\ "dbg" \in budget.allowed
  /\ budget.events > 0
  /\ budget' = [budget EXCEPT !.events = @ - 1]
  /\ rpc' = [rpc EXCEPT ![r] = "send"]
  /\ floor' = [floor EXCEPT ![r] = hi]
  /\ now' = Tick
  /\ UNCHANGED <<poller, stampedOver, actorState, actorLocal, connTasks, etaTask, snap,
                 wlog, owed, posLog, instants, hi, formerly, handled, logs, last>>

----------------------------------------------------------------------------
(***************************************************************************)
(* fm.run: one action per case of its select, and one per step of the      *)
(* loops that wait on another task (a connection write, a reply).          *)
(***************************************************************************)
\* the loop over the subscribers of topic begins (lines 239, 300), unless
\* json.Marshal failed (lines 233-236, 294-297)
StartFanout(topic, m) ==
  LET l == Subscribers(subscriptions, topic) IN
  IF m.err \/ l = <<>>
  THEN /\ actorPc' = "select"
       /\ fan' = NoFan
  ELSE /\ actorPc' = "fanout"
       /\ fan' = [subs |-> l, i |-> 1, b |-> m.b]

\* payload p is fanned out on topic: every client in the topic's list at this
\* moment is owed it
Owe(topic, p) ==
  owed' = [c \in ClientIDs |->
             IF \E i \in DOMAIN MapGet(subscriptions, topic) :
                  MapGet(subscriptions, topic)[i] = c
             THEN Append(owed[c], p) ELSE owed[c]]

\* case c := <-fm.addClient: processAddClient, which starts handleClient
ActorAddClient(c) ==
  /\ actorPc = "select"
  /\ cpc[c] = "adding"
  /\ clients' = MapPut(clients, out[c].id, out[c])
  /\ cpc' = [cpc EXCEPT ![c] = "read"]
  /\ out' = [out EXCEPT ![c] = Nil]
  /\ last' = [kind |-> "addClient", hit |-> FALSE]
  /\ Took(c, "addClient")
  /\ UNCHANGED <<poller, stampedOver, subscriptions, tracks, busButtonCount, actorLocal, conn, nextID,
                 etaTask, requesters, now, budget, observed, sentLog>>

\* Faulty variant: a handleClient that sends on fm.removeClient inside its
\* loop and goes back to NextReader
ActorRemoveClient_ReaderGoesOn(c) ==
  /\ actorPc = "select"
  /\ cpc[c] = "remove"
  /\ subscriptions' = RemoveSubscriptions(subscriptions, out[c])
  /\ clients' = MapDelete(clients, out[c])
  /\ cpc' = [cpc EXCEPT ![c] = "read"]
  /\ out' = [out EXCEPT ![c] = Nil]
  /\ last' = [kind |-> "removeClient", hit |-> out[c] \in DOMAIN clients]
  /\ Took(c, "removeClient")
  /\ UNCHANGED <<poller, stampedOver, tracks, busButtonCount, actorLocal, conn, nextID,
                 etaTask, requesters, now, budget, observed, sentLog>>

\* case clientID := <-fm.removeClient: processRemoveClient
ActorRemoveClient(c) ==
  /\ actorPc = "select"
  /\ cpc[c] = "remove"
  /\ subscriptions' = RemoveSubscriptions(subscriptions, out[c])
  /\ clients' = MapDelete(clients, out[c])
  /\ cpc' = [cpc EXCEPT ![c] = "done"]
  /\ out' = [out EXCEPT ![c] = Nil]
  /\ last' = [kind |-> "removeClient", hit |-> out[c] \in DOMAIN clients]
  /\ Took(c, "removeClient")
  /\ UNCHANGED <<poller, stampedOver, tracks, busButtonCount, actorLocal, conn, nextID,
                 etaTask, requesters, now, budget, observed, sentLog>>

\* Faulty variant: a handleMsgBusButton that hands the envelope to
\* fm.sendToTopic, a send on fm.serverMsg from inside fm.run, which nobody
\* can receive
ActorClientMsg_SendsToItself(c) ==
  /\ actorPc = "select"
  /\ cpc[c] = "send"
  /\ cpc' = [cpc EXCEPT ![c] = "read"]
  /\ out' = [out EXCEPT ![c] = Nil]
  /\ LET cm == out[c] IN
     CASE cm.msg.kind = "fusionMessageSubscribe" ->
            /\ subscriptions' = handleMsgSubscribe(subscriptions, cm.clientID, cm.msg.Topic)
            /\ last' = [kind |-> "subscribe",
                        hit |-> cm.clientID \in Range(MapGet(subscriptions, cm.msg.Topic))]
            /\ formerly' = [formerly EXCEPT ![cm.clientID] = @ \cup {cm.msg.Topic}]
            /\ UNCHANGED <<clients, tracks, busButtonCount, actorLocal, now,
                           wlog, owed, posLog, instants, hi, floor, handled>>
       [] cm.msg.kind = "fusionMessageUnsubscribe" ->
            /\ subscriptions' = handleMsgUnsubscribe(subscriptions, cm.clientID, cm.msg.Topic)
            /\ last' = [kind |-> "unsubscribe",
                        hit |-> cm.clientID \in Range(MapGet(subscriptions, cm.msg.Topic))]
            /\ UNCHANGED <<clients, tracks, busButtonCount, actorLocal, now, observed>>
       [] cm.msg.kind = "fusionPosition" ->
            /\ tracks' = handleMsgPosition(tracks, cm.msg, now)
            /\ posLog' = [posLog EXCEPT ![cm.msg.Track] =
                            Append(@, [fp |-> cm.msg, at |-> now])]
            /\ last' = [kind |-> "position", hit |-> cm.msg.Track \in DOMAIN tracks]
            /\ UNCHANGED <<subscriptions, clients, busButtonCount, actorLocal, now,
                           wlog, owed, instants, hi, floor, formerly, handled>>
       [] cm.msg.kind = "fusionBusButton" ->
            LET fme == Envelope("bus_button", [Latitude |-> cm.msg.Latitude]) IN
            /\ busButtonCount' = IncrementBusButton(busButtonCount)
            /\ actorPc' = "selfSend"
            /\ fan' = NoFan
            /\ Owe("bus_button", fme)
            /\ handled' = [handled EXCEPT !.bus = @ + 1]
            /\ last' = [kind |-> "bus_button", hit |-> FALSE]
            /\ UNCHANGED <<subscriptions, clients, tracks, dbg, now,
                           wlog, posLog, instants, hi, floor, formerly>>
  /\ Took(c, "clientMsg")
  /\ UNCHANGED <<poller, stampedOver, conn, nextID, etaTask, requesters, budget, sentLog>>

\* case cm := <-fm.clientMsg: processMessage
ActorClientMsg(c) ==
  /\ actorPc = "select"
  /\ cpc[c] = "send"
  /\ cpc' = [cpc EXCEPT ![c] = "read"]
  /\ out' = [out EXCEPT ![c] = Nil]
  /\ LET cm == out[c] IN
     CASE cm.msg.kind = "fusionMessageSubscribe" ->
            /\ subscriptions' = handleMsgSubscribe(subscriptions, cm.clientID, cm.msg.Topic)
            /\ last' = [kind |-> "subscribe",
                        hit |-> cm.clientID \in Range(MapGet(subscriptions, cm.msg.Topic))]
            /\ formerly' = [formerly EXCEPT ![cm.clientID] = @ \cup {cm.msg.Topic}]
            /\ UNCHANGED <<clients, tracks, busButtonCount, actorLocal, now,
                           wlog, owed, posLog, instants, hi, floor, handled>>
       [] cm.msg.kind = "fusionMessageUnsubscribe" ->
            /\ subscriptions' = handleMsgUnsubscribe(subscriptions, cm.clientID, cm.msg.Topic)
            /\ last' = [kind |-> "unsubscribe",
                        hit |-> cm.clientID \in Range(MapGet(subscriptions, cm.msg.Topic))]
            /\ UNCHANGED <<clients, tracks, busButtonCount, actorLocal, now, observed>>
       [] cm.msg.kind = "fusionPosition" ->
            /\ tracks' = handleMsgPosition(tracks, cm.msg, now)
            /\ posLog' = [posLog EXCEPT ![cm.msg.Track] =
                            Append(@, [fp |-> cm.msg, at |-> now])]
            /\ last' = [kind |-> "position", hit |-> cm.msg.Track \in DOMAIN tracks]
            /\ UNCHANGED <<subscriptions, clients, busButtonCount, actorLocal, now,
                           wlog, owed, instants, hi, floor, formerly, handled>>
       [] cm.msg.kind = "fusionBusButton" ->
            LET fme == Envelope("bus_button", [Latitude |-> cm.msg.Latitude]) IN
            /\ busButtonCount' = IncrementBusButton(busButtonCount)
            /\ StartFanout("bus_button", Marshal(fme))
            /\ Owe("bus_button", fme)
            /\ handled' = [handled EXCEPT !.bus = @ + 1]
            /\ last' = [kind |-> "bus_button", hit |-> FALSE]
            /\ UNCHANGED <<subscriptions, clients, tracks, dbg, now,
                           wlog, posLog, instants, hi, floor, formerly>>
  /\ Took(c, "clientMsg")
  /\ UNCHANGED <<poller, stampedOver, conn, nextID, etaTask, requesters, budget, sentLog>>

\* case sm := <-fm.serverMsg: processServerMessage
ActorServerMsg ==
  /\ actorPc = "select"
  /\ etaTask.pc = "sending"
  /\ etaTask' = IdleETA
  /\ StartFanout(etaTask.sm.topic, Marshal(etaTask.sm.msg))
  /\ Owe(etaTask.sm.topic, etaTask.sm.msg)
  /\ handled' = [handled EXCEPT !.broadcast = @ + 1]
  /\ last' = [kind |-> "broadcast", hit |-> Marshal(etaTask.sm.msg).err]
  /\ Took(ETABridge, "serverMsg")
  /\ UNCHANGED <<poller, stampedOver, actorState, dbg, connTasks, requesters, now, budget,
                 wlog, posLog, instants, hi, floor, formerly, sentLog>>

\* Faulty variant: a fan-out that takes a subscriber whose write failed out
\* of the subscription map and the registry at once
ActorWrite_DropsFailed ==
  /\ actorPc = "fanout"
  /\ LET id == fan.subs[fan.i] IN
     /\ id \in DOMAIN clients
     /\ wlog' = [wlog EXCEPT ![id] = Append(@, [b |-> fan.b, ok |-> conn[id] = "open"])]
     /\ IF conn[id] = "open"
        THEN UNCHANGED <<subscriptions, clients>>
        ELSE /\ subscriptions' = RemoveSubscriptions(subscriptions, id)
             /\ clients' = MapDelete(clients, id)
     /\ IF fan.i < Len(fan.subs)
        THEN /\ fan' = [fan EXCEPT !.i = @ + 1]
             /\ UNCHANGED actorPc
        ELSE /\ fan' = NoFan
             /\ actorPc' = "select"
  /\ UNCHANGED <<poller, stampedOver, tracks, busButtonCount, dbg, connTasks, etaTask, requesters, now,
                 budget, owed, posLog, instants, hi, floor, formerly, handled, logs, last>>

\* Faulty variant: a fan-out that gives up at the first write that fails
ActorWrite_StopOnError ==
  /\ actorPc = "fanout"
  /\ LET id == fan.subs[fan.i] IN
     /\ id \in DOMAIN clients
     /\ wlog' = [wlog EXCEPT ![id] = Append(@, [b |-> fan.b, ok |-> conn[id] = "open"])]
     /\ IF fan.i < Len(fan.subs) /\ conn[id] = "open"
        THEN /\ fan' = [fan EXCEPT !.i = @ + 1]
             /\ UNCHANGED actorPc
        ELSE /\ fan' = NoFan
             /\ actorPc' = "select"
  /\ UNCHANGED <<poller, stampedOver, actorState, dbg, connTasks, etaTask, requesters, now, budget,
                 owed, posLog, instants, hi, floor, formerly, handled, logs, last>>

\* one turn of a fan-out loop (lines 240-244, 301-305): look the client up
\* and write to its connection; the write fails on a broken connection.  A
\* subscriber with no record is a nil *fusionClient, and client.conn panics
ActorWrite ==
  /\ actorPc = "fanout"
  /\ LET id == fan.subs[fan.i] IN
     IF id \notin DOMAIN clients
     THEN /\ actorPc' = "crashed"
          /\ UNCHANGED <<fan, wlog>>
     ELSE /\ wlog' = [wlog EXCEPT ![id] = Append(@, [b |-> fan.b, ok |-> conn[id] = "open"])]
          /\ IF fan.i < Len(fan.subs)
             THEN /\ fan' = [fan EXCEPT !.i = @ + 1]
                  /\ UNCHANGED actorPc
             ELSE /\ fan' = NoFan
                  /\ actorPc' = "select"
  /\ UNCHANGED <<poller, stampedOver, actorState, dbg, connTasks, etaTask, requesters, now, budget,
                 owed, posLog, instants, hi, floor, formerly, handled, logs, last>>

\* Faulty variant: a processDebug that replies on the channel of the other
\* requester
ActorDebug_OtherChannel(r) ==
  /\ actorPc = "select"
  /\ rpc[r] = "send"
  /\ rpc' = [rpc EXCEPT ![r] = "sent"]
  /\ actorPc' = "debugClients"
  /\ dbg' = [ch |-> CHOOSE q \in Requesters : q # r, todo |-> DOMAIN clients,
             clients |-> {}, tracks |-> {}, busButtonCount |-> busButtonCount]
  /\ instants' = {View(clients, tracks, busButtonCount)}
  /\ last' = [kind |-> "debug", hit |-> FALSE]
  /\ UNCHANGED <<poller, stampedOver, actorState, fan, connTasks, etaTask, snap, now, budget,
                 wlog, owed, posLog, hi, floor, formerly, handled, logs>>

\* case debugChan := <-fm.debug: processDebug begins (lines 377-381)
ActorDebug(r) ==
  /\ actorPc = "select"
  /\ rpc[r] = "send"
  /\ rpc' = [rpc EXCEPT ![r] = "sent"]
  /\ actorPc' = "debugClients"
  /\ dbg' = [ch |-> r, todo |-> DOMAIN clients, clients |-> {}, tracks |-> {},
             busButtonCount |-> busButtonCount]
  /\ instants' = {View(clients, tracks, busButtonCount)}
  /\ last' = [kind |-> "debug", hit |-> FALSE]
  /\ UNCHANGED <<poller, stampedOver, actorState, fan, connTasks, etaTask, snap, now, budget,
                 wlog, owed, posLog, hi, floor, formerly, handled, logs>>

\* one turn of the loop over fm.clients (lines 383-391).  The client's
\* handleClient may be writing lastMessageTime at this moment: the read then
\* yields the old time or a torn one
ActorDebugClient ==
  /\ actorPc = "debugClients"
  /\ IF dbg.todo = {}
     THEN /\ actorPc' = "debugTracks"
          /\ UNCHANGED dbg
     ELSE /\ \E c \in dbg.todo :
               \E lmt \in {clients[c].lastMessageTime}
                          \cup (IF cpc[c] = "stamp" THEN {TornTime} ELSE {}) :
                 dbg' = [dbg EXCEPT !.todo = @ \ {c},
                                    !.clients = @ \cup {DebugClient(clients[c], lmt)}]
          /\ UNCHANGED actorPc
  /\ UNCHANGED <<poller, stampedOver, actorState, fan, connTasks, etaTask, requesters, now, budget,
                 observed, logs, last>>

\* the loop over fm.tracks (lines 393-397)
ActorDebugTracks ==
  /\ actorPc = "debugTracks"
  /\ dbg' = [dbg EXCEPT !.tracks = DebugTracks(tracks)]
  /\ actorPc' = "debugSend"
  /\ UNCHANGED <<poller, stampedOver, actorState, fan, connTasks, etaTask, requesters, now, budget,
                 observed, logs, last>>

\* ch <- debug meets the requester's <-copyChan (lines 400, 406)
ActorDebugSend ==
  /\ actorPc = "debugSend"
  /\ rpc[dbg.ch] = "recv"
  /\ LET s == [clients |-> dbg.clients, tracks |-> dbg.tracks,
               busButtonCount |-> dbg.busButtonCount] IN
     /\ snap' = [snap EXCEPT ![dbg.ch] = s]
     /\ hi' = [k \in Tracks |->
                 LET ls == {Len(tr) : tr \in {x \in s.tracks : x[1].Track = k}} IN
                 IF ls = {} THEN hi[k]
                 ELSE LET n == CHOOSE x \in ls : \A y \in ls : y <= x IN
                      IF n > hi[k] THEN n ELSE hi[k]]
  /\ rpc' = [rpc EXCEPT ![dbg.ch] = "got"]
  /\ actorPc' = "select"
  /\ dbg' = NoDbg
  /\ UNCHANGED <<poller, stampedOver, actorState, fan, connTasks, etaTask, now, budget,
                 wlog, owed, posLog, instants, floor, formerly, handled, logs, last>>

\* debugInfo, line 406: the send on fm.debug has returned and the requester
\* goes on to <-copyChan
DebugRecv(r) ==
  /\ rpc[r] = "sent"
  /\ rpc' = [rpc EXCEPT ![r] = "recv"]
  /\ UNCHANGED <<poller, stampedOver, actorState, actorLocal, connTasks, etaTask, snap, now, budget,
                 wlog, owed, posLog, instants, hi, floor, formerly, handled, logs, last>>

\* debugHandler and exportHandler write their response from the copy and return
DebugReturn(r) ==
  /\ rpc[r] = "got"
  /\ rpc' = [rpc EXCEPT ![r] = "idle"]
  /\ snap' = [snap EXCEPT ![r] = NoSnap]
  /\ UNCHANGED <<poller, stampedOver, actorState, actorLocal, connTasks, etaTask, now, budget,
                 observed, logs, last>>

----------------------------------------------------------------------------
\* the connection tasks and the cases of fm.run that serve them
ConnStep ==
  \/ Connect
  \/ \E c \in ClientIDs : ReaderNextReader(c)
  \/ \E c \in ClientIDs : ReaderStamp(c)
  \/ \E c \in ClientIDs : ReaderDecode(c)
  \/ \E c \in ClientIDs : ActorAddClient(c)
  \/ \E c \in ClientIDs : ActorClientMsg(c)

\* connections breaking and the deregistration that follows
CloseStep ==
  \/ \E c \in ClientIDs : ConnBreak(c)
  \/ \E c \in ClientIDs : ActorRemoveClient(c)

\* the ETA callback and the fan-outs
FanStep ==
  \/ HandleETA
  \/ ActorServerMsg
  \/ ActorWrite

\* the snapshot requesters and processDebug
SnapStep ==
  \/ \E r \in Requesters : DebugInfo(r)
  \/ \E r \in Requesters : ActorDebug(r)
  \/ ActorDebugClient
  \/ ActorDebugTracks
  \/ ActorDebugSend
  \/ \E r \in Requesters : DebugRecv(r)
  \/ \E r \in Requesters : DebugReturn(r)

\* Spec: publish/subscribe traffic (subscribe, unsubscribe and bus_button
\* frames, frames that are dropped, ETA callbacks, connections breaking); the
\* clock stands still
Budget == [events |-> MaxEvents, arrived |-> 0,
           allowed |-> {"sub", "unsub", "bus", "junk", "eta", "brk"},
           reqs |-> {}, fail |-> 0, ticking |-> FALSE, logging |-> FALSE]
Init == InitWith(Budget)
Next == ConnStep \/ CloseStep \/ FanStep
Spec == Init /\ [][Next]_vars

\* SpecTrack: position frames and frames that are dropped, under a running clock
TrackBudget == [events |-> MaxTrackEvents, arrived |-> 0, allowed |-> {"pos", "junk"},
                reqs |-> {}, fail |-> 0, ticking |-> TRUE, logging |-> FALSE]
InitTrack == InitWith(TrackBudget)
NextTrack == ConnStep
SpecTrack == InitTrack /\ [][NextTrack]_vars

\* SpecSnap: positions and snapshot requests under a running clock
SnapBudget == [events |-> MaxSnapEvents, arrived |-> 0, allowed |-> {"pos", "dbg"},
               reqs |-> {"r1"}, fail |-> 0, ticking |-> TRUE, logging |-> FALSE]
InitSnap == InitWith(SnapBudget)
NextSnap == ConnStep \/ SnapStep
SpecSnap == InitSnap /\ [][NextSnap]_vars

\* SpecOrder: subscribe and unsubscribe frames, frames that are dropped, ETA
\* callbacks and connections breaking, with the messages of every source
\* logged as sent and as received by fm.run
OrderBudget == [events |-> MaxOrderEvents, arrived |-> 0,
                allowed |-> {"sub", "unsub", "junk", "eta", "brk"},
                reqs |-> {}, fail |-> 0, ticking |-> FALSE, logging |-> TRUE]
InitOrder == InitWith(OrderBudget)
NextOrder == ConnStep \/ CloseStep \/ FanStep
SpecOrder == InitOrder /\ [][NextOrder]_vars

\* Scheduling.  A goroutine that can run does run: fm.run takes a message
\* when a sender waits at its select and a write of fm.run returns; a
\* handleClient whose NextReader has returned an error or a frame goes on.
\* Nothing is assumed of the environment.
ActorStep ==
  \/ \E c \in ClientIDs : ActorAddClient(c) \/ ActorClientMsg(c) \/ ActorRemoveClient(c)
  \/ ActorServerMsg
  \/ ActorWrite
ReaderStep ==
  \E c \in ClientIDs :
    (ReaderNextReader(c) /\ conn[c] = "broken") \/ ReaderStamp(c) \/ ReaderDecode(c)
FairTasks == WF_vars(ActorStep) /\ WF_vars(ReaderStep)

\* SpecClose: the traffic of SpecFail with the messages logged, under fair
\* scheduling
CloseBudget == [events |-> MaxCloseEvents, arrived |-> 0,
                allowed |-> {"sub", "unsub", "eta", "brk"},
                reqs |-> {}, fail |-> 0, ticking |-> FALSE, logging |-> TRUE]
InitClose == InitWith(CloseBudget)
NextClose == ConnStep \/ CloseStep \/ FanStep
SpecClose == InitClose /\ [][NextClose]_vars /\ FairTasks

\* SpecReply: position frames and snapshot requests of two requesters, under
\* fair scheduling: fm.run also goes on through processDebug, and a requester
\* that was handed its copy returns
SnapActorStep ==
  \/ \E r \in Requesters : ActorDebug(r)
  \/ ActorDebugClient
  \/ ActorDebugTracks
  \/ ActorDebugSend
FairSnapTasks ==
  /\ WF_vars(ActorStep \/ SnapActorStep)
  /\ WF_vars(ReaderStep)
  /\ WF_vars(\E r \in Requesters : DebugRecv(r) \/ DebugReturn(r))
ReplyBudget == [events |-> MaxReplyEvents, arrived |-> 0, allowed |-> {"pos", "dbg"},
                reqs |-> Requesters, fail |-> 0, ticking |-> FALSE, logging |-> FALSE]
InitReply == InitWith(ReplyBudget)
NextReply == ConnStep \/ SnapStep
SpecReply == InitReply /\ [][NextReply]_vars /\ FairSnapTasks

\* SpecLive: every kind of task at once: handleClient goroutines with
\* subscribe and bus_button frames, connections breaking, ETA callbacks and
\* snapshot requesters
LiveBudget == [events |-> MaxLiveEvents, arrived |-> 0,
               allowed |-> {"sub", "unsub", "bus", "eta", "brk", "dbg"},
               reqs |-> Requesters, fail |-> 0, ticking |-> FALSE,
               logging |-> FALSE]
InitLive == InitWith(LiveBudget)
NextLive == ConnStep \/ CloseStep \/ FanStep \/ SnapStep
SpecLive == InitLive /\ [][NextLive]_vars

\* SpecRun: every kind of message fm.run takes and every way its handlers
\* can fail: subscribe, unsubscribe, bus_button and position frames, frames
\* that are dropped, ETA callbacks with estimates that json.Marshal rejects,
\* connections breaking under a fan-out, deregistrations, snapshot requests
RunBudget == [events |-> MaxRunEvents, arrived |-> 0,
              allowed |-> {"sub", "unsub", "bus", "junk", "pos", "eta", "brk", "dbg"},
              reqs |-> {"r1"}, fail |-> 0, ticking |-> FALSE, logging |-> FALSE]
InitRun == InitWith(RunBudget)
NextRun == ConnStep \/ CloseStep \/ FanStep \/ SnapStep
SpecRun == InitRun /\ [][NextRun]_vars

\* SpecConn: connection attempts that succeed and that fail, subscribe and
\* unsubscribe frames, with the messages logged
ConnBudget == [events |-> MaxConnEvents, arrived |-> 0, allowed |-> {"sub", "unsub"},
               reqs |-> {}, fail |-> MaxConnFailures, ticking |-> FALSE,
               logging |-> TRUE]
InitConn == InitWith(ConnBudget)
NextConn == ConnStep
SpecConn == InitConn /\ [][NextConn]_vars

\* SpecFail: subscribe frames, ETA callbacks and connections
\* breaking: enough for a fan-out to two subscribers, one of them broken
FailBudget == [events |-> MaxFailEvents, arrived |-> 0,
               allowed |-> {"sub", "eta", "brk"},
               reqs |-> {}, fail |-> 0, ticking |-> FALSE, logging |-> FALSE]
InitFail == InitWith(FailBudget)
NextFail == ConnStep \/ CloseStep \/ FanStep
SpecFail == InitFail /\ [][NextFail]_vars

\* SpecMap: the handlers of the subscription map and the registry as
\* functions, applied to every registry of up to MaxSubscribers clients and
\* every subscription map fm.run can hold with it: each topic absent or with
\* a list, without repetition, of registered clients
SubscriberIDs == {NewV1(n) : n \in 1..MaxSubscribers}
Lists(ids) ==
  UNION {{l \in [1..n -> ids] : \A i, j \in 1..n : i # j => l[i] # l[j]} :
           n \in 0..Cardinality(ids)}
MapBudget == [events |-> 0, arrived |-> 0, allowed |-> {},
              reqs |-> {}, fail |-> 0, ticking |-> FALSE, logging |-> FALSE]
InitMap ==
  /\ \E reg \in SUBSET SubscriberIDs :
       /\ clients = [c \in reg |->
                       [id |-> c, lastMessageTime |-> 1, userAgent |-> "ua"]]
       /\ \E D \in SUBSET Topics : subscriptions \in [D -> Lists(reg)]
  /\ InitTasks(MapBudget)

\* processRemoveClient(clientID), for a client that is registered or not
ProcessRemove(clientID) ==
  /\ subscriptions' = RemoveSubscriptions(subscriptions, clientID)
  /\ clients' = MapDelete(clients, clientID)
  /\ last' = [kind |-> "removeClient", hit |-> clientID \in DOMAIN clients]
  /\ UNCHANGED <<poller, stampedOver, tracks, busButtonCount, actorLocal, connTasks, etaTask,
                 requesters, now, budget, observed, logs>>

\* handleMsgSubscribe(clientID, {Topic: topic}) for a registered client
ProcessSubscribe(clientID, topic) ==
  /\ clientID \in DOMAIN clients
  /\ subscriptions' = handleMsgSubscribe(subscriptions, clientID, topic)
  /\ last' = [kind |-> "subscribe",
              hit |-> clientID \in Range(MapGet(subscriptions, topic))]
  /\ UNCHANGED <<poller, stampedOver, clients, tracks, busButtonCount, actorLocal, connTasks, etaTask,
                 requesters, now, budget, observed, logs>>

\* handleMsgUnsubscribe(clientID, {Topic: topic}) for a registered client
ProcessUnsubscribe(clientID, topic) ==
  /\ clientID \in DOMAIN clients
  /\ subscriptions' = handleMsgUnsubscribe(subscriptions, clientID, topic)
  /\ last' = [kind |-> "unsubscribe",
              hit |-> clientID \in Range(MapGet(subscriptions, topic))]
  /\ UNCHANGED <<poller, stampedOver, clients, tracks, busButtonCount, actorLocal, connTasks, etaTask,
                 requesters, now, budget, observed, logs>>

NextMap ==
  \/ \E c \in SubscriberIDs : ProcessRemove(c)
  \/ \E c \in SubscriberIDs, t \in Topics : ProcessSubscribe(c, t)
  \/ \E c \in SubscriberIDs, t \in Topics : ProcessUnsubscribe(c, t)
SpecMap == InitMap /\ [][NextMap]_vars

----------------------------------------------------------------------------
(***************************************************************************)
(* UpdateShuttles of main.go: the loop that requests the data feed, inserts *)
(* the vehicle updates of the response and sleeps.  poller.slept is the     *)
(* time slept since the last request, poller.gaps the time slept between    *)
(* each request and the one before it.                                      *)
(***************************************************************************)
fusion == <<subscriptions, clients, tracks, busButtonCount, actorPc, fan, dbg,
            cpc, out, conn, nextID, etaTask, rpc, snap, now, budget,
            wlog, owed, posLog, instants, hi, floor, formerly, handled,
            sentLog, tookLog, last, stampedOver>>

\* the vehicles the loop of line 57 goes through: the pieces of the body
\* between its first and its last
Vehicles(pieces) == IF pieces > 2 THEN pieces - 2 ELSE 0

\* main, line 146: go UpdateShuttles(config.DataFeed, config.UpdateInterval, ...)
UpdateShuttlesStart ==
  /\ poller.pc = "off"
  /\ \E n \in 1..MaxInterval :
       poller' = [poller EXCEPT !.pc = "get", !.updateInterval = n]
  /\ UNCHANGED fusion

\* lines 42-45: http.Get(dataFeed); on an error, continue
UpdateShuttlesGet ==
  /\ poller.pc = "get"
  /\ poller.requests < MaxRequests
  /\ \E err \in BOOLEAN :
       poller' = [poller EXCEPT
                    !.pc = IF err THEN "get" ELSE "read",
                    !.requests = @ + 1,
                    !.gaps = IF poller.requests = 0 THEN @ ELSE Append(@, poller.slept),
                    !.slept = 0]
  /\ UNCHANGED fusion

\* lines 49-57: ioutil.ReadAll(resp.Body); on an error, continue; else split
\* the body at "eof" and enter the loop over its vehicles at i = 1, or pass
\* it when there is none
UpdateShuttlesReadAll ==
  /\ poller.pc = "read"
  /\ \/ poller' = [poller EXCEPT !.pc = "get"]
     \/ \E n \in 1..MaxPieces :
          poller' = IF Vehicles(n) = 0
                    THEN [poller EXCEPT !.pc = "sleep"]
                    ELSE [poller EXCEPT !.pc = "insert", !.pieces = n, !.i = 1]
  /\ UNCHANGED fusion

\* one turn of the loop of lines 57-92, for vehicles_data[i].  A piece the
\* expression does not match makes FindAllStringSubmatch(...)[0] panic (line
\* 64), after the turns before it; otherwise the update is inserted, which
\* can fail (lines 85-91), and the loop goes on either way
UpdateShuttlesInsert ==
  /\ poller.pc = "insert"
  /\ \/ poller' = [poller EXCEPT !.pc = "panic"]
     \/ \E err \in BOOLEAN :
          LET done == ~(poller.i + 1 < poller.pieces - 1) IN
          poller' = [poller EXCEPT
                       !.inserted = IF err THEN @ ELSE @ + 1,
                       !.i = IF done THEN 0 ELSE @ + 1,
                       !.pieces = IF done THEN 0 ELSE @,
                       !.pc = IF done THEN "sleep" ELSE "insert"]
  /\ UNCHANGED fusion

\* line 95: time.Sleep(time.Duration(updateInterval) * time.Second)
UpdateShuttlesSleep ==
  /\ poller.pc = "sleep"
  /\ poller' = [poller EXCEPT !.pc = "get", !.slept = @ + poller.updateInterval]
  /\ UNCHANGED fusion

\* SpecPoll: UpdateShuttles alone, with requests and body reads that fail
InitPoll == InitWith(MapBudget)
NextPoll ==
  \/ UpdateShuttlesStart
  \/ UpdateShuttlesGet
  \/ UpdateShuttlesReadAll
  \/ UpdateShuttlesInsert
  \/ UpdateShuttlesSleep
SpecPoll == InitPoll /\ [][NextPoll]_vars

----------------------------------------------------------------------------
(***************************************************************************)
(* What is observed of a run, for the properties.                          *)
(***************************************************************************)
\* the JSON text of an envelope
JSON(p) == <<"json", p.Type, p.Message>>
Encodable(p) == p.Message \notin Unmarshalable

\* the bytes of the WriteMessage calls made on c's connection for envelopes of
\* the given type, in order
Written(c, type) ==
  LET OfType(w) == w.b[2] = type
      ws == SelectSeq(wlog[c], OfType)
  IN [i \in 1..Len(ws) |-> ws[i].b]

\* the envelopes of the given type fanned out while c was subscribed, in order
Owed(c, type) ==
  LET OfType(p) == p.Type = type IN SelectSeq(owed[c], OfType)

JSONs(ps) == [i \in 1..Len(ps) |-> JSON(ps[i])]
IsPrefix(s, t) == Len(s) <= Len(t) /\ \A i \in 1..Len(s) : s[i] = t[i]
Without(l, c) == LET Keep(x) == x # c IN SelectSeq(l, Keep)

\* fm.run takes the clientMessage of c's handleClient, of the given kind
Takes(c, kind) ==
  cpc[c] = "send" /\ cpc'[c] = "read" /\ out[c].msg.kind = kind

----------------------------------------------------------------------------
(***************************************************************************)
(* Subscriptions.                                                          *)
(***************************************************************************)
\* C1: no subscriber list ever holds a client id twice, and a Subscribe(c, T)
\* processed while c is already in T's list leaves the subscription map as it
\* was.
C1_SubscribeIdempotent ==
  [][/\ \A t \in DOMAIN subscriptions' : \A c \in ClientIDs :
          Count(subscriptions'[t], c) <= 1
     /\ \A c \in ClientIDs :
          (Takes(c, "fusionMessageSubscribe")
             /\ c \in Range(MapGet(subscriptions, out[c].msg.Topic)))
          => subscriptions' = subscriptions]_vars

\* fm.run has just processed a Subscribe from a client already subscribed
C1_Witness == last = [kind |-> "subscribe", hit |-> TRUE]

\* C6: an Unsubscribe(c, T) processed while c is not in T's list (T may never
\* have been subscribed to) changes nothing of the manager's data and leaves
\* fm.run in its select; processed while c is in T's list it removes that one
\* entry and changes nothing else.
C6_UnsubscribeMissIsNoOp ==
  [][\A c \in ClientIDs :
       Takes(c, "fusionMessageUnsubscribe") =>
         LET T == out[c].msg.Topic
             l == MapGet(subscriptions, T) IN
         /\ UNCHANGED <<clients, tracks, busButtonCount, wlog>>
         /\ actorPc' = "select"
         /\ IF c \in Range(l)
            THEN /\ DOMAIN subscriptions' = DOMAIN subscriptions
                 /\ Len(subscriptions'[T]) = Len(l) - 1
                 /\ subscriptions'[T] = Without(l, c)
                 /\ \A t \in DOMAIN subscriptions \ {T} :
                      subscriptions'[t] = subscriptions[t]
            ELSE subscriptions' = subscriptions]_vars

\* fm.run has just processed an Unsubscribe for a topic nobody ever
\* subscribed to
C6_Witness ==
  /\ last = [kind |-> "unsubscribe", hit |-> FALSE]
  /\ DOMAIN subscriptions = {}

\* C3: when fm.run has processed the deregistration of c, c is in no
\* subscriber list and not in the registry, the entries of the other clients
\* are as they were, and from then on c stays absent and nothing is written to
\* its connection.
C3_DeregisteredIsGone ==
  [][\A c \in ClientIDs :
       /\ (cpc[c] = "remove" /\ cpc'[c] = "done") =>
            /\ DOMAIN clients' = DOMAIN clients \ {c}
            /\ \A d \in DOMAIN clients' : clients'[d] = clients[d]
            /\ DOMAIN subscriptions' = DOMAIN subscriptions
            /\ \A t \in DOMAIN subscriptions :
                 subscriptions'[t] = Without(subscriptions[t], c)
       /\ cpc[c] = "done" =>
            /\ c \notin DOMAIN clients'
            /\ \A t \in DOMAIN subscriptions' : c \notin Range(subscriptions'[t])
            /\ wlog'[c] = wlog[c]]_vars

\* c was subscribed to eta and has been deregistered, and fm.run has since
\* fanned a broadcast out
C3_Witness ==
  \E c \in ClientIDs :
    /\ cpc[c] = "done"
    /\ "eta" \in formerly[c]
    /\ last = [kind |-> "broadcast", hit |-> FALSE]

----------------------------------------------------------------------------
(***************************************************************************)
(* Fan-out.                                                                *)
(***************************************************************************)
\* C2 as the specification states it: whenever fm.run is back in its select,
\* the eta envelopes written to each client are exactly the envelopes that
\* were broadcast while it was subscribed, one write for each, in order.
C2_EveryBroadcastWritten ==
  actorPc = "select" =>
    \A c \in ClientIDs : Written(c, "eta") = JSONs(Owed(c, "eta"))

\* C2: a broadcast whose payload json.Marshal encodes is written exactly once
\* to each client subscribed to its topic when fm.run processes it, and to no
\* other client; a broadcast whose payload json.Marshal rejects is written to
\* nobody.  While a fan-out is under way the writes made are a prefix of those.
C2_BroadcastFanout ==
  \A c \in ClientIDs :
    LET due == JSONs(SelectSeq(Owed(c, "eta"), Encodable)) IN
    /\ IsPrefix(Written(c, "eta"), due)
    /\ actorPc = "select" => Written(c, "eta") = due

\* a broadcast has been written to a subscriber and fm.run is back in its
\* select, while another registered client, not subscribed, got nothing
C2_Witness ==
  /\ actorPc = "select"
  /\ last = [kind |-> "broadcast", hit |-> FALSE]
  /\ \E c, d \in DOMAIN clients :
       /\ c # d
       /\ Len(Written(c, "eta")) = 1
       /\ wlog[d] = <<>>

\* C8: busButtonCount is the number of bus_button events fm.run has
\* processed; it never decreases and only the processing of a bus_button
\* event changes it, by one; each client is written the bus_button envelopes
\* fanned out while it was subscribed, so a client subscribed at all k events
\* is written k envelopes.
C8_BusButtonCounter ==
  /\ [](/\ busButtonCount = handled.bus
        /\ \A c \in ClientIDs :
             /\ IsPrefix(Written(c, "bus_button"), JSONs(Owed(c, "bus_button")))
             /\ actorPc = "select" =>
                  /\ Written(c, "bus_button") = JSONs(Owed(c, "bus_button"))
                  /\ Len(Owed(c, "bus_button")) = handled.bus =>
                       Len(Written(c, "bus_button")) = busButtonCount)
  /\ [][/\ busButtonCount' >= busButtonCount
        /\ busButtonCount' # busButtonCount =>
             /\ busButtonCount' = busButtonCount + 1
             /\ \E c \in ClientIDs : Takes(c, "fusionBusButton")]_vars

\* two bus_button events have been processed and a client subscribed at both
\* has been written two envelopes
C8_Witness ==
  /\ actorPc = "select"
  /\ busButtonCount = 2
  /\ \E c \in ClientIDs : Len(Written(c, "bus_button")) = 2

\* C9 as the specification states it: whenever fm.run is back in its select,
\* each client has been written the envelope of an estimate once for every
\* callback that fm.run processed while the client was subscribed to eta.
C9_EveryEstimateWritten ==
  actorPc = "select" =>
    \A c \in ClientIDs : \A e \in Estimates :
      Count(Written(c, "eta"), JSON(Envelope("eta", e)))
        = Count(Owed(c, "eta"), Envelope("eta", e))

\* C9: an invocation of the ETA callback changes nothing of the manager's
\* data and writes to no connection; it hands fm.run one message for topic
\* eta, an envelope of type eta carrying the estimate, which fm.run takes as
\* one broadcast.  An estimate json.Marshal encodes is then written once to
\* each client subscribed to eta at that moment and to no other client; an
\* estimate json.Marshal rejects is written to nobody.
C9_EtaCallback ==
  /\ [][/\ (etaTask.pc = "idle" /\ etaTask'.pc = "sending") =>
             /\ UNCHANGED <<subscriptions, clients, tracks, busButtonCount, wlog>>
             /\ etaTask'.sm.topic = "eta"
             /\ etaTask'.sm.msg.Type = "eta"
             /\ etaTask'.sm.msg.Message \in Estimates
        /\ (etaTask.pc = "sending" /\ etaTask'.pc = "idle") =>
             handled'.broadcast = handled.broadcast + 1]_vars
  /\ [](actorPc = "select" =>
          \A c \in ClientIDs : \A e \in Estimates :
            Count(Written(c, "eta"), JSON(Envelope("eta", e)))
              = IF Encodable(Envelope("eta", e))
                THEN Count(Owed(c, "eta"), Envelope("eta", e))
                ELSE 0)

\* two callbacks were processed while a client was subscribed to eta, one with
\* an estimate that json.Marshal rejects: the client was written one envelope
C9_Witness ==
  /\ actorPc = "select"
  /\ etaTask.pc = "idle"
  /\ handled.broadcast = 2
  /\ \E c \in ClientIDs :
       Len(Owed(c, "eta")) = 2 /\ Len(Written(c, "eta")) = 1

\* C10: fm.run never leaves its loop: it does not panic, and in a fan-out
\* every subscriber still to be written has a record in the registry, whatever
\* frames were dropped, writes failed or clients were deregistered; with a
\* snapshot to deliver, its requester is at <-copyChan or on its way there.
C10_ActorNeverStops ==
  /\ actorPc \in {"select", "fanout", "debugClients", "debugTracks", "debugSend"}
  /\ actorPc = "fanout" =>
       /\ fan.i \in 1..Len(fan.subs)
       /\ \A j \in fan.i..Len(fan.subs) : fan.subs[j] \in DOMAIN clients
  /\ actorPc = "debugSend" => rpc[dbg.ch] \in {"sent", "recv"}

\* a write to a broken connection failed in a fan-out, its client has been
\* deregistered, a snapshot request has been answered, and fm.run is in its
\* select
C10_Witness ==
  /\ actorPc = "select"
  /\ \E c \in ClientIDs :
       /\ cpc[c] = "done"
       /\ c \notin DOMAIN clients
       /\ \E i \in 1..Len(wlog[c]) : ~wlog[c][i].ok
  /\ \E r \in Requesters : rpc[r] = "got"

----------------------------------------------------------------------------
(***************************************************************************)
(* Tracks.                                                                 *)
(***************************************************************************)
\* C7: a track exists exactly when fm.run has processed a position for it;
\* it holds those positions in the order fm.run processed them, each with the
\* time fm.run read from the clock when it processed it: never the zero time,
\* never a time a client supplies.
C7_TracksInProcessingOrder ==
  \A k \in Tracks :
    /\ k \in DOMAIN tracks <=> posLog[k] # <<>>
    /\ k \in DOMAIN tracks =>
         /\ Len(tracks[k]) = Len(posLog[k])
         /\ \A i \in 1..Len(tracks[k]) :
              /\ tracks[k][i] = [posLog[k][i].fp EXCEPT !.Time = posLog[k][i].at]
              /\ tracks[k][i].Time \notin ClientTimes
         /\ \A i, j \in 1..Len(tracks[k]) :
              i < j => tracks[k][i].Time <= tracks[k][j].Time

\* a track holds two positions in the order fm.run processed them, which is
\* not the order their frames arrived in, the second stamped by fm.run later
\* than by handleClient
C7_Witness ==
  \E k \in DOMAIN tracks :
    /\ Len(tracks[k]) = 2
    /\ tracks[k][1].Latitude > tracks[k][2].Latitude
    /\ posLog[k][2].fp.Time < posLog[k][2].at

----------------------------------------------------------------------------
(***************************************************************************)
(* Ownership of the state and snapshots.                                   *)
(***************************************************************************)
\* the length of track k as snapshot s shows it, 0 when it shows none
TrackLen(s, k) ==
  LET ls == {Len(tr) : tr \in {x \in s.tracks : x[1].Track = k}} IN
  IF ls = {} THEN 0 ELSE CHOOSE x \in ls : \A y \in ls : y <= x

\* C5: a step of a handleClient goroutine, of the ETA callback or of a
\* snapshot requester leaves the subscription map, the registered client
\* records, the tracks and the counter as they are: only steps of fm.run
\* change them.
C5_OnlyActorTouchesState ==
  [][((\E c \in ClientIDs : cpc[c] \in {"read", "stamp", "decode"} /\ cpc'[c] # cpc[c])
        \/ (etaTask.pc = "idle" /\ etaTask'.pc # "idle")
        \/ (\E r \in Requesters : rpc[r] \in {"idle", "sent", "got"} /\ rpc'[r] # rpc[r]))
      => UNCHANGED <<subscriptions, clients, tracks, busButtonCount>>]_vars

\* C4: the snapshot a requester receives shows the clients, the tracks and
\* the counter as they were together at one instant while fm.run made it, and
\* no track in it is shorter than in a snapshot delivered before the request.
C4_SnapshotConsistent ==
  \A r \in Requesters :
    rpc[r] = "got" =>
      /\ snap[r] \in instants
      /\ \A k \in Tracks : TrackLen(snap[r], k) >= floor[r][k]

\* what does hold of a snapshot: its tracks and its counter are those of one
\* instant, and no track is shorter than in an earlier snapshot
SnapshotOfTracks ==
  \A r \in Requesters :
    rpc[r] = "got" =>
      /\ \E v \in instants :
           v.tracks = snap[r].tracks /\ v.busButtonCount = snap[r].busButtonCount
      /\ \A k \in Tracks : TrackLen(snap[r], k) >= floor[r][k]

----------------------------------------------------------------------------
(***************************************************************************)
(* The order of messages.                                                  *)
(***************************************************************************)
\* C11: for every source (a client's webSocketHandler and handleClient, or the
\* ETA callback) the messages fm.run has received from it are, in order, the
\* first messages that source sent: none is skipped and none overtakes an
\* earlier one.  fm.run receives only in its select, so it has finished with
\* one message when it takes the next.
C11_PerSourceOrder ==
  \A src \in Sources :
    /\ \A i \in 1..Len(sentLog[src]) : sentLog[src][i].n = i
    /\ IsPrefix(tookLog[src], sentLog[src])
    /\ Len(tookLog[src]) < Len(sentLog[src]) =>
         /\ Len(sentLog[src]) = Len(tookLog[src]) + 1
         /\ IF src = ETABridge THEN etaTask.pc = "sending"
            ELSE cpc[src] \in {"adding", "send", "remove"}

\* fm.run has received two frames' messages from one client, after its
\* registration, and a broadcast from the ETA callback
C11_Witness ==
  /\ tookLog[ETABridge] # <<>>
  /\ \E c \in ClientIDs :
       /\ Len(tookLog[c]) = 3
       /\ tookLog[c][2].chan = "clientMsg"
       /\ tookLog[c][3].chan = "clientMsg"

----------------------------------------------------------------------------
(***************************************************************************)
(* Failures.                                                               *)
(***************************************************************************)
\* C12: every write to a connection is one turn of a fan-out of fm.run: it is
\* made once for the subscriber the loop is at, and whether it fails or not
\* the loop goes on to the next subscriber of the list, or ends after the
\* last, and the subscription map and the registry stay as they are.
C12_FailedWriteGoesOn ==
  [][wlog' # wlog =>
       /\ actorPc = "fanout"
       /\ LET id == fan.subs[fan.i] IN
            wlog' = [wlog EXCEPT ![id] =
                       Append(@, [b |-> fan.b, ok |-> conn[id] = "open"])]
       /\ UNCHANGED <<subscriptions, clients>>
       /\ IF fan.i < Len(fan.subs)
          THEN actorPc' = "fanout" /\ fan' = [fan EXCEPT !.i = @ + 1]
          ELSE actorPc' = "select"]_vars

\* a broadcast to two subscribers is over: the write to the first failed, the
\* write to the second was made, and the first is still subscribed and
\* registered
C12_Witness ==
  /\ actorPc = "select"
  /\ \E c, d \in DOMAIN clients :
       /\ MapGet(subscriptions, "eta") = <<c, d>>
       /\ Len(wlog[c]) = 1 /\ ~wlog[c][1].ok
       /\ Len(wlog[d]) = 1 /\ wlog[d][1].ok
       /\ wlog[d][1].b = wlog[c][1].b

\* c is in no subscriber list and not in the registry
Absent(c) ==
  /\ c \notin DOMAIN clients
  /\ \A t \in DOMAIN subscriptions : c \notin Range(subscriptions[t])

\* C13: a handleClient sends on fm.removeClient at most once, as the last
\* thing it sends, exactly when it has left its loop, which it does only on a
\* connection that has failed; and under fair scheduling a client whose
\* connection has failed is eventually deregistered: its handleClient has
\* ended and it is in no subscriber list and not in the registry.
C13_ReaderDeregisters ==
  /\ [](\A c \in ClientIDs :
          /\ \A i \in 1..Len(sentLog[c]) :
               sentLog[c][i].chan = "removeClient" => i = Len(sentLog[c])
          /\ cpc[c] \in {"remove", "done"} <=>
               /\ sentLog[c] # <<>>
               /\ sentLog[c][Len(sentLog[c])].chan = "removeClient"
          /\ cpc[c] \in {"remove", "done"} => conn[c] = "broken")
  /\ \A c \in ClientIDs :
       conn[c] = "broken" ~> (cpc[c] = "done" /\ Absent(c))

\* a client that subscribed and whose connection then failed has been
\* deregistered: its handleClient sent on fm.removeClient and has ended
C13_Witness ==
  \E c \in ClientIDs :
    /\ cpc[c] = "done"
    /\ Absent(c)
    /\ formerly[c] # {}
    /\ tookLog[c][Len(tookLog[c])].chan = "removeClient"

----------------------------------------------------------------------------
(***************************************************************************)
(* Replies to snapshot requests.                                           *)
(***************************************************************************)
\* C14: a requester comes to hold a snapshot only by the reply of fm.run to
\* its own request, on the channel it sent with that request: one reply for
\* one request, which changes nothing for the other requester; and under fair
\* scheduling every requester that has issued a request receives its reply.
C14_OneReplyEach ==
  /\ [][\A r \in Requesters :
          /\ (rpc[r] # "got" /\ rpc'[r] = "got") =>
               /\ rpc[r] = "recv"
               /\ actorPc = "debugSend" /\ dbg.ch = r
               /\ snap[r] = NoSnap /\ snap'[r] # NoSnap
               /\ \A q \in Requesters \ {r} : snap'[q] = snap[q] /\ rpc'[q] = rpc[q]
          /\ snap'[r] # snap[r] =>
               \/ rpc[r] = "recv" /\ rpc'[r] = "got"
               \/ rpc[r] = "got" /\ rpc'[r] = "idle" /\ snap'[r] = NoSnap
          /\ (rpc[r] = "recv" /\ rpc'[r] # "recv") => rpc'[r] = "got"]_vars
  /\ \A r \in Requesters : (rpc[r] = "send") ~> (rpc[r] = "got")

\* one requester holds its reply, which shows a client whose handleClient is
\* running, while the other requester is still waiting with its request
C14_Witness ==
  \E r, q \in Requesters :
    /\ rpc[r] = "got" /\ rpc[q] = "send"
    /\ \E c \in ClientIDs :
         cpc[c] = "read" /\ \E x \in snap[r].clients : x.id = c

----------------------------------------------------------------------------
(***************************************************************************)
(* Who writes to a connection.                                             *)
(***************************************************************************)
\* C15: a write to a connection happens only as a step of fm.run in a
\* fan-out: the step writes once, to the connection of the subscriber the
\* loop is at, and no handleClient, callback or requester moves in it.  fm.run
\* being one goroutine that makes one write at a time, no two writes to a
\* connection are ever in progress together.
C15_OnlyActorWrites ==
  [][wlog' # wlog =>
       /\ actorPc = "fanout"
       /\ UNCHANGED <<cpc, out, etaTask, rpc>>
       /\ \A c \in ClientIDs :
            IF c = fan.subs[fan.i]
            THEN Len(wlog'[c]) = Len(wlog[c]) + 1 /\ IsPrefix(wlog[c], wlog'[c])
            ELSE wlog'[c] = wlog[c]]_vars

\* fm.run is in a fan-out to two subscribers: it has written to the first
\* and is about to write to the second
C15_Witness ==
  /\ actorPc = "fanout"
  /\ fan.i = 2
  /\ Len(wlog[fan.subs[1]]) = 1
  /\ wlog[fan.subs[2]] = <<>>

----------------------------------------------------------------------------
(***************************************************************************)
(* Registration.                                                           *)
(***************************************************************************)
\* C16: a connection attempt that fails sends nothing on fm.addClient, leaves
\* the registry as it is and starts no handleClient.  One that succeeds sends
\* one client on fm.addClient, with an identifier that no connection has had
\* and that is not in the registry; when fm.run takes it, that client and no
\* other is added to the registry and its handleClient starts.  So every
\* registered client was sent on fm.addClient once, and a handleClient runs
\* only for a client that was registered.
C16_RegisterOnSuccess ==
  /\ [][/\ budget'.fail < budget.fail =>
             UNCHANGED <<clients, subscriptions, cpc, out, conn, nextID, sentLog>>
        /\ nextID' # nextID =>
             LET id == NewV1(nextID + 1) IN
             /\ nextID' = nextID + 1
             /\ id \notin DOMAIN clients /\ cpc[id] = "free" /\ sentLog[id] = <<>>
             /\ cpc' = [cpc EXCEPT ![id] = "adding"]
             /\ out'[id].id = id
             /\ sentLog'[id] = <<[chan |-> "addClient", n |-> 1]>>
             /\ clients' = clients
        /\ \A c \in ClientIDs :
             (cpc[c] = "adding" /\ cpc'[c] # "adding") =>
               /\ c \notin DOMAIN clients
               /\ DOMAIN clients' = DOMAIN clients \cup {c}
               /\ clients'[c] = out[c]
               /\ \A d \in DOMAIN clients : clients'[d] = clients[d]
               /\ cpc' = [cpc EXCEPT ![c] = "read"]]_vars
  /\ [](\A c \in ClientIDs :
          /\ cpc[c] = "free" => c \notin DOMAIN clients /\ sentLog[c] = <<>>
          /\ cpc[c] = "adding" => c \notin DOMAIN clients
          /\ cpc[c] \in {"read", "stamp", "decode", "send"} => c \in DOMAIN clients
          /\ c \in DOMAIN clients =>
               /\ clients[c].id = c
               /\ Cardinality({i \in 1..Len(sentLog[c]) :
                                 sentLog[c][i].chan = "addClient"}) = 1)

\* after two failed connection attempts and a successful one, one client is
\* registered and its handleClient is reading
C16_Witness ==
  /\ budget.fail = 0
  /\ \E c \in ClientIDs : DOMAIN clients = {c} /\ cpc[c] = "read"

----------------------------------------------------------------------------
(***************************************************************************)
(* Frames that are dropped.                                                *)
(***************************************************************************)
\* C17: when handleClient drops a frame (its envelope or payload does not
\* decode, or its type is unknown) nothing is sent on fm.clientMsg or
\* fm.removeClient, handleClient is back at NextReader, and the subscription
\* map, the registered client records, the tracks and the counter are as they
\* were: the step that drops the frame changes none of them, and the record
\* of the client shows the lastMessageTime it showed when the frame arrived.
C17_DroppedFrameChangesNothing ==
  [][\A c \in ClientIDs :
       (cpc[c] = "decode" /\ cpc'[c] \notin {"decode", "send"}) =>
         /\ cpc'[c] = "read"
         /\ out'[c] = out[c] /\ sentLog' = sentLog /\ conn' = conn
         /\ UNCHANGED <<subscriptions, clients, tracks, busButtonCount>>
         /\ clients[c].lastMessageTime = stampedOver[c]]_vars

\* what does hold of a dropped frame: the step that drops it changes nothing
\* of fm's state and sends nothing, and the step of line 323 before it changed
\* the lastMessageTime of the client whose frame it was and nothing else
DroppedFrameKeepsRest ==
  [][\A c \in ClientIDs :
       /\ (cpc[c] = "decode" /\ cpc'[c] \notin {"decode", "send"}) =>
            /\ cpc'[c] = "read"
            /\ out'[c] = out[c] /\ sentLog' = sentLog /\ conn' = conn
            /\ UNCHANGED <<subscriptions, clients, tracks, busButtonCount>>
       /\ (cpc[c] = "stamp" /\ cpc'[c] # "stamp") =>
            /\ cpc'[c] = "decode"
            /\ out'[c] = out[c] /\ sentLog' = sentLog /\ conn' = conn
            /\ UNCHANGED <<subscriptions, tracks, busButtonCount>>
            /\ DOMAIN clients' = DOMAIN clients
            /\ \A d \in DOMAIN clients :
                 /\ d # c => clients'[d] = clients[d]
                 /\ clients'[d].id = clients[d].id
                 /\ clients'[d].userAgent = clients[d].userAgent]_vars

----------------------------------------------------------------------------
(***************************************************************************)
(* Absence of deadlock.                                                    *)
(***************************************************************************)
\* C18: fm.run is never stuck.  In its select it can take whatever a blocked
\* task is sending: a client on fm.addClient, a message on fm.clientMsg, an
\* identifier on fm.removeClient, a message on fm.serverMsg, a reply channel on
\* fm.debug.  Inside a handler its next step is enabled: a connection write of
\* a fan-out, a turn of processDebug, or the reply to a requester that is at
\* <-copyChan or has its own step to get there; it is never inside a handler
\* sending on one of its own channels.  A task that is not blocked on fm.run
\* has a step of its own or has returned.
C18_NoDeadlock ==
  /\ actorPc \in {"select", "fanout", "debugClients", "debugTracks", "debugSend"}
  /\ actorPc = "fanout" => ENABLED ActorWrite
  /\ actorPc = "debugClients" => ENABLED ActorDebugClient
  /\ actorPc = "debugTracks" => ENABLED ActorDebugTracks
  /\ actorPc = "debugSend" => ENABLED ActorDebugSend \/ ENABLED DebugRecv(dbg.ch)
  /\ actorPc = "select" =>
       /\ \A c \in ClientIDs :
            /\ cpc[c] = "adding" => ENABLED ActorAddClient(c)
            /\ cpc[c] = "send" => ENABLED ActorClientMsg(c)
            /\ cpc[c] = "remove" => ENABLED ActorRemoveClient(c)
       /\ etaTask.pc = "sending" => ENABLED ActorServerMsg
       /\ \A r \in Requesters :
            /\ rpc[r] = "send" => ENABLED ActorDebug(r)
            /\ rpc[r] \notin {"sent", "recv"}
  /\ \A r \in Requesters :
       /\ rpc[r] \in {"sent", "recv"} =>
            actorPc \in {"debugClients", "debugTracks", "debugSend"} /\ dbg.ch = r
       /\ rpc[r] = "sent" => ENABLED DebugRecv(r)
       /\ rpc[r] = "got" => ENABLED DebugReturn(r)
  /\ \A c \in ClientIDs : cpc[c] = "stamp" => ENABLED ReaderStamp(c)
  /\ \A c \in ClientIDs : cpc[c] = "decode" => ENABLED ReaderDecode(c)
  /\ \A c \in ClientIDs : (cpc[c] = "read" /\ conn[c] = "broken") => ENABLED ReaderNextReader(c)

\* fm.run is at the reply of processDebug while its requester has not yet
\* reached <-copyChan, and a handleClient blocked on fm.clientMsg and a
\* webSocketHandler blocked on fm.addClient wait for fm.run
C18_Witness ==
  /\ actorPc = "debugSend"
  /\ rpc[dbg.ch] = "sent"
  /\ \E c, d \in ClientIDs : cpc[c] = "send" /\ cpc[d] = "adding"

----------------------------------------------------------------------------
(***************************************************************************)
(* Subscribers and the registry.                                           *)
(***************************************************************************)
\* C19: every client identifier in the subscriber list of any topic is a key
\* of fm.clients, and the record under it is that client's.
C19_SubscribersAreRegistered ==
  \A t \in DOMAIN subscriptions :
    \A i \in 1..Len(subscriptions[t]) :
      /\ subscriptions[t][i] \in DOMAIN clients
      /\ clients[subscriptions[t][i]].id = subscriptions[t][i]

\* a client that had subscribed to a topic has been deregistered, and another
\* client is still in the list of that topic
C19_Witness ==
  \E c \in ClientIDs :
    /\ cpc[c] = "done"
    /\ \E t \in formerly[c] : \E d \in ClientIDs \ {c} : d \in Range(MapGet(subscriptions, t))

----------------------------------------------------------------------------
(***************************************************************************)
(* The life of a client as fm.run sees it.                                 *)
(***************************************************************************)
\* C20: of the messages fm.run has received from client c, the first is its
\* registration on fm.addClient and no later one is; a receipt from
\* fm.removeClient is the last, after which c has nothing more to send; c is
\* in the registry exactly from the receipt of its registration to the receipt
\* of its deregistration, so every message on fm.clientMsg is processed while
\* c is registered.
C20_ClientLifecycle ==
  \A c \in ClientIDs :
    LET l == tookLog[c] IN
    /\ \A i \in 1..Len(l) :
         /\ l[i].chan = "addClient" <=> i = 1
         /\ l[i].chan = "removeClient" =>
              i = Len(l) /\ cpc[c] = "done" /\ sentLog[c] = l
    /\ c \in DOMAIN clients <=> (l # <<>> /\ l[Len(l)].chan # "removeClient")
    /\ cpc[c] \in {"read", "stamp", "decode", "send", "remove"} => c \in DOMAIN clients

\* fm.run has received the registration of c, two messages of c and then its
\* deregistration
C20_Witness ==
  \E c \in ClientIDs :
    /\ Len(tookLog[c]) = 4
    /\ tookLog[c][2].chan = "clientMsg"
    /\ tookLog[c][4].chan = "removeClient"

----------------------------------------------------------------------------
(***************************************************************************)
(* Where fm.run can wait inside a handler.                                 *)
(***************************************************************************)
\* C21: while fm.run is inside a handler it waits for no other task: unless
\* it is at a connection write of a fan-out, its next step is enabled whatever
\* the other tasks are doing.
C21_OnlyWritesBlock ==
  actorPc # "select" =>
    \/ actorPc = "fanout"
    \/ ENABLED (ActorDebugClient \/ ActorDebugTracks \/ ActorDebugSend)

\* what does hold: a message from fm.addClient, fm.removeClient or
\* fm.clientMsg that starts no fan-out is handled in the step that receives it;
\* inside a handler fm.run waits only at a connection write or at the reply
\* ch <- debug of processDebug, and there only for its requester, which needs
\* no one to reach <-copyChan
WaitsOnlyForWriteOrReply ==
  /\ [][\A c \in ClientIDs :
          (cpc[c] \in {"adding", "send", "remove"} /\ cpc'[c] # cpc[c]) =>
            actorPc' \in {"select", "fanout"}
            /\ (actorPc' = "fanout" => out[c].msg.kind = "fusionBusButton")]_vars
  /\ [](actorPc \notin {"select", "fanout"} =>
         \/ ENABLED (ActorDebugClient \/ ActorDebugTracks \/ ActorDebugSend)
         \/ actorPc = "debugSend" /\ rpc[dbg.ch] = "sent" /\ ENABLED DebugRecv(dbg.ch))

----------------------------------------------------------------------------
(***************************************************************************)
(* processRemoveClient as a function.                                      *)
(***************************************************************************)
\* C22: processRemoveClient(c) leaves every list c is not in as it is, and
\* the registry as it is when c is not registered; from the lists c is in it
\* takes c out and nothing else; the records of the other clients and the
\* topics of the map stay; and processing it once more changes nothing.
C22_RemoveIsIdempotent ==
  [][\A c \in SubscriberIDs :
       ProcessRemove(c) =>
         /\ DOMAIN subscriptions' = DOMAIN subscriptions
         /\ \A t \in DOMAIN subscriptions :
              /\ c \notin Range(subscriptions[t]) => subscriptions'[t] = subscriptions[t]
              /\ subscriptions'[t] = Without(subscriptions[t], c)
         /\ c \notin DOMAIN clients => clients' = clients
         /\ DOMAIN clients' = DOMAIN clients \ {c}
         /\ \A d \in DOMAIN clients' : clients'[d] = clients[d]
         /\ RemoveSubscriptions(subscriptions', c) = subscriptions'
         /\ MapDelete(clients', c) = clients']_vars

\* processRemoveClient has been processed for a client that was not
\* registered, with two other clients in the list of a topic
C22_Witness ==
  /\ last = [kind |-> "removeClient", hit |-> FALSE]
  /\ \E t \in DOMAIN subscriptions : Len(subscriptions[t]) = 2
  /\ Cardinality(DOMAIN clients) = 2

----------------------------------------------------------------------------
(***************************************************************************)
(* What a broadcast leaves alone.                                          *)
(***************************************************************************)
\* C23: the steps of processServerMessage (taking the message from
\* fm.serverMsg, with json.Marshal failing or not, and every write of its
\* fan-out, failing or not) leave the subscription map, the registry, the
\* tracks and the counter as they are.  A client leaves the registry only when
\* fm.run takes the identifier its handleClient sends on fm.removeClient, and
\* leaves a subscriber list only then or by its own unsubscribe message.
C23_BroadcastChangesNothing ==
  [][/\ (etaTask.pc = "sending" /\ etaTask'.pc = "idle") =>
          UNCHANGED <<subscriptions, clients, tracks, busButtonCount>>
     /\ (last.kind = "broadcast" /\ wlog' # wlog) =>
          UNCHANGED <<subscriptions, clients, tracks, busButtonCount>>
     /\ \A c \in ClientIDs :
          /\ (c \in DOMAIN clients /\ c \notin DOMAIN clients') =>
               cpc[c] = "remove" /\ cpc'[c] = "done"
          /\ \A t \in DOMAIN subscriptions :
               (c \in Range(subscriptions[t]) /\ c \notin Range(subscriptions'[t])) =>
                 \/ cpc[c] = "remove" /\ cpc'[c] = "done"
                 \/ Takes(c, "fusionMessageUnsubscribe")]_vars

\* a broadcast is over in which the write to a subscriber failed; the
\* subscriber is still in the list and in the registry, and its handleClient
\* is sending its identifier on fm.removeClient
C23_Witness ==
  /\ actorPc = "select"
  /\ last.kind = "broadcast"
  /\ \E c \in DOMAIN clients :
       /\ c \in Range(MapGet(subscriptions, "eta"))
       /\ \E i \in 1..Len(wlog[c]) : ~wlog[c][i].ok
       /\ cpc[c] = "remove"

----------------------------------------------------------------------------
(***************************************************************************)
(* The order of a subscriber list.                                         *)
(***************************************************************************)
\* client a comes before client b in list l
Before(l, a, b) == IndexOf(l, a) # 0 /\ IndexOf(l, b) # 0 /\ IndexOf(l, a) < IndexOf(l, b)

\* list m holds the clients of list l other than c, in the order they have in l
SameOrderWithout(l, m, c) ==
  /\ Range(m) = Range(l) \ {c}
  /\ Len(m) = Cardinality(Range(m))
  /\ \A a, b \in Range(m) : Before(m, a, b) <=> Before(l, a, b)

\* C24: handleMsgSubscribe puts a client that is not in the topic's list at
\* its end and leaves the list as it is otherwise; handleMsgUnsubscribe and
\* processRemoveClient take the client out and leave the clients that remain
\* in the order they had; the lists of the other topics stay as they are.
C24_OrderPreserved ==
  [][\A c \in SubscriberIDs :
       /\ \A t \in Topics :
            /\ ProcessSubscribe(c, t) =>
                 LET l == MapGet(subscriptions, t) IN
                 /\ subscriptions'[t] = IF c \in Range(l) THEN l ELSE Append(l, c)
                 /\ \A u \in DOMAIN subscriptions \ {t} :
                      subscriptions'[u] = subscriptions[u]
            /\ ProcessUnsubscribe(c, t) =>
                 /\ SameOrderWithout(MapGet(subscriptions, t), MapGet(subscriptions', t), c)
                 /\ \A u \in DOMAIN subscriptions \ {t} :
                      subscriptions'[u] = subscriptions[u]
       /\ ProcessRemove(c) =>
            \A t \in DOMAIN subscriptions :
              SameOrderWithout(subscriptions[t], subscriptions'[t], c)]_vars

\* an unsubscribe has taken the client with the smallest identifier out of
\* the list of a topic that held all three registered clients
C24_Witness ==
  /\ last = [kind |-> "unsubscribe", hit |-> TRUE]
  /\ Cardinality(DOMAIN clients) = 3
  /\ \E t \in DOMAIN subscriptions :
       /\ Len(subscriptions[t]) = 2
       /\ \E c \in DOMAIN clients :
            c \notin Range(subscriptions[t]) /\ \A d \in Range(subscriptions[t]) : c < d

----------------------------------------------------------------------------
(***************************************************************************)
(* The feed poller.                                                        *)
(***************************************************************************)
\* C25: between every request UpdateShuttles makes to the data feed and the
\* request before it, it has slept for updateInterval seconds.
C25_SleepsBetweenRequests ==
  \A i \in 1..Len(poller.gaps) : poller.gaps[i] = poller.updateInterval

\* what does hold: UpdateShuttles never sleeps longer than updateInterval
\* between two requests, and it sleeps at all only when the request and the
\* reading of its body succeeded and every vehicle of the body was matched
SleepsAfterSuccessOnly ==
  /\ \A i \in 1..Len(poller.gaps) : poller.gaps[i] \in {0, poller.updateInterval}
  /\ [][(poller'.slept # poller.slept /\ poller'.slept # 0) =>
          poller.pc = "sleep" /\ poller'.slept = poller.updateInterval]_vars

====
